---- MODULE Spec2Model ----
(***************************************************************************)
(* Model of the quiz session engine of QuizBot (src/main.py): session      *)
(* creation, sequential poll delivery, the answer and timeout resolvers,   *)
(* finalization and the stop actions, over the SQLite tables sessions,     *)
(* session_items, active_polls and quizzes.                                *)
(*                                                                         *)
(* Scheduling: python-telegram-bot dispatches updates one at a time (the   *)
(* application is built without concurrent updates), so at most one        *)
(* handler coroutine exists; timeout_fallback coroutines are asyncio       *)
(* tasks, and every coroutine can be suspended at each await.  A           *)
(* suspended coroutine is a record of the variable frames.                 *)
(*                                                                         *)
(* Six specifications: Spec is the session engine; SanSpec calls           *)
(* sanitize_for_poll (of either source file) on enumerated arguments and   *)
(* on its own results; AddSpec is the two handlers that insert quizzes,    *)
(* the ADDING and the IMPORT branch of text_or_poll; AuthSpec is the       *)
(* admin side with its authorization checks (start, btn and admin_cb,      *)
(* text_or_poll, editsub) for either source file; LiveSpec is the engine   *)
(* with successful sends and fair scheduling of the coroutines; ShowSpec   *)
(* builds the question text of a poll.                                     *)
(***************************************************************************)
EXTENDS Integers, Sequences, FiniteSets, TLC

\* ---------------------------------------------------------------- bounds
\* number of Telegram users talking to the bot
NumUsers == 2
\* number of rows the sessions table may reach
MaxSessions == 2
\* number of polls Telegram creates for the bot (poll ids 1..MaxPolls)
MaxPolls == 2

Users == 1..NumUsers

\* ------------------------------------------------------------- constants
\* SQL NULL / Python None in the integer columns chosen and is_correct
NULL == -2
\* the "no answer" sentinel written by timeout_fallback
TIMEOUT_CHOSEN == -1
\* timer choices offered by timer_menu ("Without Timer" is 0)
OpenPeriods == {0, 15}
\* option_ids[0] of a poll answer, or None when option_ids is empty; option 1
\* is the right answer of quiz 1 and a wrong answer of quiz 2
AnswerChoices == {NULL, 1}

\* The quizzes table as stored before the sessions start: id -> row.
\* nopts is the number of options sanitize_for_poll returns for the row
\* (it raises when fewer than 2 remain); quiz 2 is an imported row whose
\* correct index lies outside its options (the import stores it unchecked),
\* quiz 3 an imported row whose correct index is negative.
QuizRows ==
  <<[subject |-> "Math", correct |-> 1, nopts |-> 2],
    [subject |-> "Math", correct |-> 3, nopts |-> 2],
    [subject |-> "Bio", correct |-> -1, nopts |-> 2]>>

QuizIds == DOMAIN QuizRows
\* the subject/chapter selections a user can hold in user_data: "Math" has
\* the quizzes above, "Art" is a selection whose quizzes have all been deleted
Subjects == {"Math", "Art", "Bio"}
\* the quiz ids the owner passes to /delquiz
Deletable == {2}

VARIABLES
  sessions,       \* table sessions: id -> row
  session_items,  \* table session_items: session id -> rows ordered by idx
  active_polls,   \* table active_polls: set of rows
  quizzes,        \* ids of the rows present in table quizzes
  frames,         \* suspended coroutines
  next_poll_id,   \* id Telegram gives to the next poll it creates
  poll_sent,      \* poll id -> what the poll was delivered with
  delivered,      \* per session: idx of every poll sent to the chat, in order
  summary_sent,   \* per session: number of final summaries sent to the chat
  summary_msg,    \* per session: the counts shown by the last summary sent
  menu_text,      \* text begin_quiz_session last put into the menu message
  san_in,         \* arguments of a sanitize_for_poll call
  san_out,        \* what that call returned or raised
  added,          \* rows the admin handlers have inserted into table quizzes
  build,          \* which of the two source files is running
  admin_ids,      \* settings row admin_ids, as a set of user ids
  is_banned,      \* the users whose row has is_banned = 1
  user_data,      \* context.user_data of every user
  broadcasts,     \* number of broadcasts sent to the users
  admin_log,      \* number of rows of table admin_log
  outcome,        \* what the last handler did towards its caller
  poll_text       \* a question, its place in a session, and the text sent

vars == <<sessions, session_items, active_polls, quizzes, frames,
          next_poll_id, poll_sent, delivered, summary_sent, summary_msg, menu_text,
          san_in, san_out, added,
          build, admin_ids, is_banned, user_data, broadcasts, admin_log, outcome,
          poll_text>>

\* the variables of the session engine, and those of the admin-side calls
engine_vars == <<sessions, session_items, active_polls, quizzes, frames,
                 next_poll_id, poll_sent, delivered, summary_sent, summary_msg, menu_text>>
auth_vars == <<build, admin_ids, is_banned, user_data, broadcasts, admin_log, outcome>>
admin_vars == <<san_in, san_out, added, auth_vars, poll_text>>

SessionIds == DOMAIN sessions

\* ---------------------------------------------------------------- helpers
\* the counts of a summary message; all zero where no summary is at hand
NoCounts == [correct |-> 0, wrong |-> 0, missed |-> 0]

Frame(tid, sid, pc, idx, pid) ==
  [tid |-> tid, sid |-> sid, pc |-> pc, idx |-> idx, pid |-> pid,
   counts |-> NoCounts]

\* the dispatcher runs one handler at a time; tid 0 is the handler coroutine
HandlerIdle == \A f \in frames : f.tid # 0

\* SELECT * FROM active_polls WHERE poll_id=?
active_row(AP, pid) == {r \in AP : r.poll_id = pid}

\* SELECT * FROM session_items WHERE session_id=? AND poll_id=?
item_of(I, sid, pid) == {i \in DOMAIN I[sid] : I[sid][i].poll_id = pid}

\* variant of timeout_row_missing: the presence check is skipped
timeout_row_missing_unchecked(AP, pid) == FALSE

\* timeout_fallback: "if not row: return  # answered already"
timeout_row_missing(AP, pid) == active_row(AP, pid) = {}

\* variant of StopRunning: the running sessions are left as they are
StopRunning_skipped(S, uid) == S

\* UPDATE sessions SET state='stopped' WHERE user_id=? AND state='running'
StopRunning(S, uid) ==
  [s \in DOMAIN S |->
     IF S[s].user_id = uid /\ S[s].state = "running"
     THEN [S[s] EXCEPT !.state = "stopped"]
     ELSE S[s]]

\* variant of advance_index: the increment is lost
advance_index_lost(S, sid) == S

\* UPDATE sessions SET current_index=current_index+1 WHERE id=?
advance_index(S, sid) == [S EXCEPT ![sid].current_index = @ + 1]

\* UPDATE session_items SET chosen=?, is_correct=?, closed_at=? WHERE id=?
close_item(I, sid, i, chosen, ok) ==
  [I EXCEPT ![sid][i] = [@ EXCEPT !.chosen = chosen, !.is_correct = ok,
                                  !.closed = TRUE]]

\* 1 if chosen is not None and int(chosen) == int(quiz["correct"]) else 0
answer_ok(chosen, qid) ==
  IF chosen # NULL /\ chosen = QuizRows[qid].correct THEN 1 ELSE 0

\* if srow["open_period"] > 0 or chosen is not None
answer_advances(open_period, chosen) == open_period > 0 \/ chosen # NULL

\* variant of schedules_timeout: a timeout task for every poll
schedules_timeout_always(open_period) == TRUE

\* if srow["open_period"] > 0: asyncio.create_task(timeout_fallback(...))
schedules_timeout(open_period) == open_period > 0

\* SELECT id FROM quizzes WHERE subject=? AND chapter=?
pool(Q, subj) == {q \in Q : QuizRows[q].subject = subj}

\* variant of Orderings: ids may repeat and may miss a quiz of the pool
Orderings_repeating(P) == [1..Cardinality(P) -> P]

\* random.shuffle(ids): every ordering of the pool
Orderings(P) ==
  {p \in [1..Cardinality(P) -> P] : \A i, j \in DOMAIN p : p[i] = p[j] => i = j}

\* for i, qid in enumerate(ids): INSERT INTO session_items(session_id,
\* quiz_id, idx) VALUES(?,?,?): the rows of the new session, in idx order
new_items(ids) ==
  [i \in 1..Len(ids) |->
     [quiz_id |-> ids[i], idx |-> i - 1, poll_id |-> 0, chosen |-> NULL,
      is_correct |-> NULL, closed |-> FALSE]]

\* correct = sum(1 for it in items if it["is_correct"] == 1)
count_correct(items) ==
  Cardinality({i \in DOMAIN items : items[i].is_correct = 1})

\* variant of count_wrong: every item that is not correct counts as wrong
count_wrong_not_correct(items) ==
  Cardinality({i \in DOMAIN items : items[i].is_correct = 0})

\* wrong = sum(1 for it in items if (it["chosen"] is not None and
\*             it["chosen"] >= 0 and it["is_correct"] == 0))
count_wrong(items) ==
  Cardinality({i \in DOMAIN items :
                 items[i].chosen # NULL /\ items[i].chosen >= 0
                   /\ items[i].is_correct = 0})

\* tot, correct, wrong and missed = tot - correct - wrong of the summary
summary_counts(items) ==
  [correct |-> count_correct(items), wrong |-> count_wrong(items),
   missed |-> Len(items) - count_correct(items) - count_wrong(items)]

\* send_next_quiz suspended in the summary send_message, the message built
finalize_frame(tid, sid, idx, items) ==
  [Frame(tid, sid, "summary", idx, 0) EXCEPT !.counts = summary_counts(items)]

\* variant of send_next_quiz: the state check is missing
send_next_quiz_any_state(tid, sid, S, I, Q) ==
  LET idx == S[sid].current_index IN
  IF idx >= Len(I[sid]) THEN {finalize_frame(tid, sid, idx, I[sid])}
  ELSE IF I[sid][idx + 1].quiz_id \notin Q
          \/ QuizRows[I[sid][idx + 1].quiz_id].nopts < 2
       THEN {}
       ELSE {Frame(tid, sid, "poll", idx, 0)}

\* send_next_quiz up to its first await: the frame it suspends in, if any.
\*   not running               -> returns
\*   current_index >= len      -> awaits the summary send
\*   quiz row missing/rejected -> exception, caught and reported
\*   otherwise                 -> awaits send_poll for the item at idx
send_next_quiz(tid, sid, S, I, Q) ==
  IF S[sid].state # "running" THEN {}
  ELSE LET idx == S[sid].current_index IN
       IF idx >= Len(I[sid]) THEN {finalize_frame(tid, sid, idx, I[sid])}
       ELSE IF I[sid][idx + 1].quiz_id \notin Q
               \/ QuizRows[I[sid][idx + 1].quiz_id].nopts < 2
            THEN {}
            ELSE {Frame(tid, sid, "poll", idx, 0)}

\* the texts of q.message.edit_text in begin_quiz_session
EmptySelection == "No quizzes found for this selection."
QuizStarted == "Quiz started! Good luck!"

\* variant of begin_writes: the running sessions are stopped before the pool
\* is looked at
begin_writes_stop_first(S, I, Q, uid, subj, op, ids) ==
  IF pool(Q, subj) = {}
  THEN [created |-> FALSE, sessions |-> StopRunning(S, uid), session_items |-> I]
  ELSE [created |-> TRUE,
        sessions |-> Append(StopRunning(S, uid),
                            [user_id |-> uid, total |-> Len(ids),
                             open_period |-> op, state |-> "running",
                             current_index |-> 0]),
        session_items |-> Append(I, new_items(ids))]

\* the tables sessions and session_items as begin_quiz_session leaves them:
\* "if not ids: ... return" comes before the first statement that writes
begin_writes(S, I, Q, uid, subj, op, ids) ==
  IF pool(Q, subj) = {}
  THEN [created |-> FALSE, sessions |-> S, session_items |-> I]
  ELSE [created |-> TRUE,
        sessions |-> Append(StopRunning(S, uid),
                            [user_id |-> uid, total |-> Len(ids),
                             open_period |-> op, state |-> "running",
                             current_index |-> 0]),
        session_items |-> Append(I, new_items(ids))]

\* ------------------------------------------------------ sanitize_for_poll
\* A text is a sequence of characters; a Python value that may be None is
\* a sequence of length 0 (None) or 1 (the value).
None == <<>>
Some(x) == <<x>>

\* s or "" / o or ""
OrEmpty(x) == IF x = None THEN <<>> ELSE x[1]

\* the characters str.strip() removes
Whitespace == {" "}

\* the literal appended by _truncate and by trunc; in both source files as
\* they are stored this literal is three characters long
Ellipsis == <<"a-circumflex", "euro-sign", "broken-bar">>

QuestionLimit == 292
OptionLimit == 100
ExplanationLimit == 200
MaxOptions == 10

Min2(a, b) == IF a <= b THEN a ELSE b
Max2(a, b) == IF a >= b THEN a ELSE b

RECURSIVE lstrip(_)
lstrip(s) ==
  IF s = <<>> \/ s[1] \notin Whitespace THEN s ELSE lstrip(Tail(s))

RECURSIVE rstrip(_)
rstrip(s) ==
  IF s = <<>> \/ s[Len(s)] \notin Whitespace THEN s
  ELSE rstrip(SubSeq(s, 1, Len(s) - 1))

\* str.strip()
strip(s) == rstrip(lstrip(s))

\* _truncate: if len(s) <= n: return s; return s[: max(0, n-1)] + marker
truncate(s, n) ==
  IF Len(s) <= n THEN s ELSE SubSeq(s, 1, Max2(0, n - 1)) \o Ellipsis

\* variant of clean_options: equal options are all kept
RECURSIVE clean_options_keep_equal(_, _, _)
clean_options_keep_equal(options, seen, opts) ==
  IF options = <<>> THEN opts
  ELSE LET o == Head(options) IN
       IF strip(o) = <<>> THEN clean_options_keep_equal(Tail(options), seen, opts)
       ELSE clean_options_keep_equal(Tail(options), seen \cup {o}, Append(opts, o))

\* for o in options: if not o.strip(): continue; if o in seen: continue;
\*                   seen.add(o); opts.append(o)
RECURSIVE clean_options(_, _, _)
clean_options(options, seen, opts) ==
  IF options = <<>> THEN opts
  ELSE LET o == Head(options) IN
       IF strip(o) = <<>> THEN clean_options(Tail(options), seen, opts)
       ELSE IF o \in seen THEN clean_options(Tail(options), seen, opts)
       ELSE clean_options(Tail(options), seen \cup {o}, Append(opts, o))

\* variant of first_options: the list is not cut
first_options_all(opts, n) == opts

\* opts[:10]
first_options(opts, n) == SubSeq(opts, 1, Min2(n, Len(opts)))

\* "no call made", and the results of a call
NoCall ==
  [variant |-> "main", question |-> None, options |-> <<>>, explanation |-> None]
NoResult ==
  [status |-> "none", question |-> <<>>, options |-> <<>>, explanation |-> None]
ValueError ==
  [status |-> "ValueError", question |-> <<>>, options |-> <<>>, explanation |-> None]

\* sanitize_for_poll(question, options, explanation): the returned tuple,
\* or ValueError
sanitize_for_poll(question, options, explanation) ==
  LET q0 == OrEmpty(question)
      o0 == [i \in DOMAIN options |-> OrEmpty(options[i])]
      e0 == IF OrEmpty(explanation) = <<>> THEN None ELSE explanation
      o1 == [i \in DOMAIN o0 |-> truncate(o0[i], OptionLimit)]
      o2 == first_options(clean_options(o1, {}, <<>>), MaxOptions)
  IN IF Len(o2) < 2 THEN ValueError
     ELSE [status |-> "ok",
           question |-> truncate(strip(q0), QuestionLimit),
           options |-> o2,
           explanation |-> IF e0 # None
                           THEN Some(truncate(e0[1], ExplanationLimit))
                           ELSE None]

\* trunc of the second file: s = (s or "").strip();
\* return s if len(s) <= n else s[:n-1] + marker
trunc(s, n) ==
  LET t == strip(OrEmpty(s))
  IN IF Len(t) <= n THEN t ELSE SubSeq(t, 1, n - 1) \o Ellipsis

\* for o in options: if o in seen: continue; seen.add(o); clean.append(o)
RECURSIVE dedupe(_, _, _)
dedupe(options, seen, clean) ==
  IF options = <<>> THEN clean
  ELSE LET o == Head(options) IN
       IF o \in seen THEN dedupe(Tail(options), seen, clean)
       ELSE dedupe(Tail(options), seen \cup {o}, Append(clean, o))

\* if (o or "").strip()
not_blank(o) == strip(OrEmpty(o)) # <<>>

\* sanitize_for_poll of the second file
sanitize_for_poll_v3(q, options, expl) ==
  LET kept == SelectSeq(options, not_blank)
      o1 == [i \in DOMAIN kept |-> trunc(kept[i], OptionLimit)]
      o2 == first_options(dedupe(o1, {}, <<>>), MaxOptions)
  IN IF Len(o2) < 2 THEN ValueError
     ELSE [status |-> "ok",
           question |-> trunc(q, QuestionLimit),
           options |-> o2,
           explanation |-> IF OrEmpty(expl) # <<>>
                           THEN Some(trunc(expl, ExplanationLimit))
                           ELSE None]

\* the sanitizer of the named file
sanitize(variant, question, options, explanation) ==
  IF variant = "main" THEN sanitize_for_poll(question, options, explanation)
  ELSE sanitize_for_poll_v3(question, options, explanation)

\* ------------------------------------------------------ the poll payload
\* variant of correct_option_id: the stored index is sent as it is
correct_option_id_as_stored(correct, nopts) == correct

\* correct_option_id=min(int(qrow["correct"]), max(0, len(q_opts)-1))
correct_option_id(correct, nopts) == Min2(correct, Max2(0, nopts - 1))

\* what send_next_quiz passes to send_poll for a quiz row: the number of
\* sanitized options and the correct option
poll_payload(qid) ==
  [quiz_id |-> qid,
   correct_option_id |-> correct_option_id(QuizRows[qid].correct, QuizRows[qid].nopts),
   noptions |-> QuizRows[qid].nopts]

\* an index of the delivered options
valid_option_id(p) == 0 <= p.correct_option_id /\ p.correct_option_id < p.noptions

\* await bot.send_poll(...): the Bot API answers a quiz poll whose
\* correct_option_id is no index of its options with an error, which
\* send_poll raises
transport_accepts(p) == valid_option_id(p)

\* ---------------------------------------------------------- authorization
\* user ids are small numbers; the owner's is the least of them
OWNER_ID == 0
\* number of users besides the owner who talk to the admin side
NumOthers == 1
AuthUsers == OWNER_ID..NumOthers

\* context.user_data: the mode and whether a broadcast text is kept
NoUserData == [mode |-> "none", broadcast_text |-> FALSE]

\* nothing handled yet
NoOut ==
  [actor |-> OWNER_ID, entry |-> "", reply |-> "", alert |-> FALSE,
   raised |-> FALSE, denied |-> FALSE]

\* no question looked at
NoShown == [variant |-> "main", show_idx |-> 0, total |-> 0, question |-> <<>>,
            display_q |-> <<>>]

\* the settings and users tables of a fresh database (ADMIN_ID unset)
AuthStart ==
  /\ admin_ids = {}
  /\ is_banned = {}
  /\ user_data = [u \in AuthUsers |-> NoUserData]
  /\ broadcasts = 0
  /\ admin_log = 0
  /\ outcome = NoOut

\* ------------------------------------------------------------------- Init
\* the tables before any session, no coroutine, nothing sent
EngineInit ==
  /\ sessions = <<>>
  /\ session_items = <<>>
  /\ active_polls = {}
  /\ quizzes = QuizIds
  /\ frames = {}
  /\ next_poll_id = 1
  /\ poll_sent = <<>>
  /\ delivered = <<>>
  /\ summary_sent = <<>>
  /\ summary_msg = <<>>
  /\ menu_text = ""

Init ==
  /\ EngineInit
  /\ san_in = NoCall
  /\ san_out = NoResult
  /\ added = <<>>
  /\ build = "main"
  /\ AuthStart
  /\ poll_text = NoShown

\* ---------------------------------------------------------------- actions
\* begin_quiz_session up to its first await: edit_text with the
\* empty-selection text (the handler then returns) or with "Quiz started!".
\* Its other early returns (no subject/chapter chosen, banned user) only
\* edit the menu message.
begin_quiz_session(uid, subj, op, ids) ==
  /\ HandlerIdle
  /\ Len(sessions) < MaxSessions
  /\ ids \in Orderings(pool(quizzes, subj))
  /\ LET w == begin_writes(sessions, session_items, quizzes, uid, subj, op, ids) IN
     /\ sessions' = w.sessions
     /\ session_items' = w.session_items
     /\ IF w.created
        THEN /\ delivered' = Append(delivered, <<>>)
             /\ summary_sent' = Append(summary_sent, 0)
             /\ summary_msg' = Append(summary_msg, NoCounts)
             /\ frames' = frames \cup {Frame(0, Len(sessions) + 1, "started", 0, 0)}
             /\ UNCHANGED menu_text
        ELSE /\ menu_text' = EmptySelection
             /\ UNCHANGED <<delivered, summary_sent, summary_msg, frames>>
  /\ UNCHANGED <<active_polls, quizzes, next_poll_id, poll_sent>>

\* begin_quiz_session resumes: edit_text returned (ok) or raised
begin_started(f, ok) ==
  /\ f \in frames /\ f.pc = "started"
  /\ menu_text' = IF ok THEN QuizStarted ELSE menu_text
  /\ frames' = (frames \ {f}) \cup
               (IF ok THEN send_next_quiz(f.tid, f.sid, sessions, session_items, quizzes)
                ELSE {})
  /\ UNCHANGED <<sessions, session_items, active_polls, quizzes,
                 next_poll_id, poll_sent, delivered, summary_sent, summary_msg>>

\* send_next_quiz resumes after the summary send_message
summary_return(f, ok) ==
  /\ f \in frames /\ f.pc = "summary"
  /\ frames' = frames \ {f}
  /\ IF ok
     THEN /\ summary_sent' = [summary_sent EXCEPT ![f.sid] = @ + 1]
          /\ summary_msg' = [summary_msg EXCEPT ![f.sid] = f.counts]
          /\ sessions' = [sessions EXCEPT ![f.sid].state = "finished"]
     ELSE UNCHANGED <<summary_sent, summary_msg, sessions>>
  /\ UNCHANGED <<session_items, active_polls, quizzes, next_poll_id, poll_sent, delivered,
                 menu_text>>

\* the coroutines left when send_poll raises inside send_next_quiz: the
\* except clause reports the error and returns, nothing is scheduled
delivery_failed_rescheduled(F, f) ==
  (F \ {f}) \cup {Frame(f.sid, f.sid, "sleep", 0, 0)}
delivery_failed(F, f) == F \ {f}

\* send_next_quiz resumes after send_poll
poll_return(f, ok) ==
  /\ f \in frames /\ f.pc = "poll"
  /\ IF ok
     THEN /\ next_poll_id <= MaxPolls
          /\ transport_accepts(poll_payload(session_items[f.sid][f.idx + 1].quiz_id))
          /\ poll_sent' =
               Append(poll_sent, poll_payload(session_items[f.sid][f.idx + 1].quiz_id))
          /\ session_items' =
               [session_items EXCEPT ![f.sid][f.idx + 1].poll_id = next_poll_id]
          /\ active_polls' =
               (active_polls \ active_row(active_polls, next_poll_id)) \cup
               {[poll_id |-> next_poll_id, session_id |-> f.sid,
                 user_id |-> sessions[f.sid].user_id]}
          /\ delivered' = [delivered EXCEPT ![f.sid] = Append(@, f.idx)]
          /\ next_poll_id' = next_poll_id + 1
          /\ frames' = (frames \ {f}) \cup
                       {Frame(f.tid, f.sid, "controls", f.idx, next_poll_id)}
     ELSE /\ frames' = delivery_failed(frames, f)
          /\ UNCHANGED <<session_items, active_polls, delivered, next_poll_id, poll_sent>>
  /\ UNCHANGED <<sessions, quizzes, summary_sent, summary_msg, menu_text>>

\* send_next_quiz resumes after the "Controls:" message (errors ignored)
controls_return(f) ==
  /\ f \in frames /\ f.pc = "controls"
  /\ frames' = (frames \ {f}) \cup
               (IF schedules_timeout(sessions[f.sid].open_period)
                THEN {Frame(f.pid, f.sid, "sleep", 0, f.pid)}
                ELSE {})
  /\ UNCHANGED <<sessions, session_items, active_polls, quizzes,
                 next_poll_id, poll_sent, delivered, summary_sent, summary_msg, menu_text>>

\* timeout_fallback resumes after asyncio.sleep
timeout_fallback(f) ==
  /\ f \in frames /\ f.pc = "sleep"
  /\ IF timeout_row_missing(active_polls, f.pid)
     THEN /\ frames' = frames \ {f}
          /\ UNCHANGED <<sessions, session_items, active_polls>>
     ELSE LET its == item_of(session_items, f.sid, f.pid)
              I2 == IF its = {} THEN session_items
                    ELSE close_item(session_items, f.sid, CHOOSE i \in its : TRUE,
                                    TIMEOUT_CHOSEN, 0)
              S2 == advance_index(sessions, f.sid)
          IN /\ session_items' = I2
             /\ active_polls' = active_polls \ active_row(active_polls, f.pid)
             /\ sessions' = S2
             /\ frames' = (frames \ {f}) \cup
                          send_next_quiz(f.tid, f.sid, S2, I2, quizzes)
  /\ UNCHANGED <<quizzes, next_poll_id, poll_sent, delivered, summary_sent, summary_msg,
                 menu_text>>

\* poll_answer up to the first await inside send_next_quiz; uid is
\* ans.user.id, the voter, which the handler never reads
poll_answer(uid, pid, chosen) ==
  /\ HandlerIdle
  /\ LET rows == active_row(active_polls, pid) IN
     IF rows = {} THEN UNCHANGED <<sessions, session_items, active_polls, frames>>
     ELSE LET row == CHOOSE r \in rows : TRUE
              sid == row.session_id
              its == item_of(session_items, sid, pid)
          IN IF its = {}
             THEN UNCHANGED <<sessions, session_items, active_polls, frames>>
             ELSE LET i == CHOOSE j \in its : TRUE
                      qid == session_items[sid][i].quiz_id
                  IN IF qid \notin quizzes
                     \* quiz is None: quiz["correct"] raises out of the handler
                     THEN UNCHANGED <<sessions, session_items, active_polls, frames>>
                     ELSE LET I2 == close_item(session_items, sid, i, chosen,
                                               answer_ok(chosen, qid))
                              S2 == IF answer_advances(sessions[sid].open_period, chosen)
                                    THEN advance_index(sessions, sid)
                                    ELSE sessions
                          IN /\ session_items' = I2
                             /\ active_polls' = active_polls \ rows
                             /\ sessions' = S2
                             /\ frames' = frames \cup
                                  (IF answer_advances(sessions[sid].open_period, chosen)
                                   THEN send_next_quiz(0, sid, S2, I2, quizzes)
                                   ELSE {})
  /\ UNCHANGED <<quizzes, next_poll_id, poll_sent, delivered, summary_sent, summary_msg,
                 menu_text>>

\* variant of stop_cmd: the active-poll rows of the user go as well
stop_cmd_clearing_rows(uid) ==
  /\ HandlerIdle
  /\ sessions' = StopRunning(sessions, uid)
  /\ active_polls' = {r \in active_polls : r.user_id # uid}
  /\ UNCHANGED <<session_items, quizzes, frames,
                 next_poll_id, poll_sent, delivered, summary_sent, summary_msg, menu_text>>
\* stop_cmd, and the "u:stop_now" button of btn (the same statement)
stop_cmd(uid) ==
  /\ HandlerIdle
  /\ sessions' = StopRunning(sessions, uid)
  /\ UNCHANGED <<session_items, active_polls, quizzes, frames,
                 next_poll_id, poll_sent, delivered, summary_sent, summary_msg, menu_text>>

\* delquiz_cmd by the owner: DELETE FROM quizzes WHERE id=?
delquiz_cmd(qid) ==
  /\ HandlerIdle
  /\ qid \in quizzes
  /\ quizzes' = quizzes \ {qid}
  /\ UNCHANGED <<sessions, session_items, active_polls, frames,
                 next_poll_id, poll_sent, delivered, summary_sent, summary_msg, menu_text>>

\* ------------------------------------------------------------------- Next
Next ==
  \/ /\ \E uid \in Users, subj \in Subjects, op \in OpenPeriods :
          \E ids \in Orderings(pool(quizzes, subj)) :
            begin_quiz_session(uid, subj, op, ids)
     /\ UNCHANGED admin_vars
  \/ /\ \E f \in frames, ok \in BOOLEAN : begin_started(f, ok)
     /\ UNCHANGED admin_vars
  \/ /\ \E f \in frames, ok \in BOOLEAN : summary_return(f, ok)
     /\ UNCHANGED admin_vars
  \/ /\ \E f \in frames, ok \in BOOLEAN : poll_return(f, ok)
     /\ UNCHANGED admin_vars
  \/ /\ \E f \in frames : controls_return(f)
     /\ UNCHANGED admin_vars
  \/ /\ \E f \in frames : timeout_fallback(f)
     /\ UNCHANGED admin_vars
  \/ /\ \E uid \in Users, pid \in 1..next_poll_id, chosen \in AnswerChoices :
          poll_answer(uid, pid, chosen)
     /\ UNCHANGED admin_vars
  \/ /\ \E uid \in Users : stop_cmd(uid)
     /\ UNCHANGED admin_vars
  \/ /\ \E qid \in Deletable : delquiz_cmd(qid)
     /\ UNCHANGED admin_vars

Spec == Init /\ [][Next]_vars

\* ------------------------------------------ calls of sanitize_for_poll
\* longest option list enumerated element by element
MaxShortList == 3
\* longest option list of the numbered family
MaxListLen == 12

\* n times the character c
Rep(c, n) == [i \in 1..n |-> c]

\* questions: None, empty, blanks around, at / over the limit, over the
\* limit with a blank at the cut, over the limit by trailing blanks only
Questions ==
  {None, Some(<<>>), Some(<<" ", " ", "a", " ">>), Some(<<"a", " ", "b">>),
   Some(Rep("a", QuestionLimit)), Some(Rep("a", QuestionLimit + 1)),
   Some(Rep("a", QuestionLimit - 2) \o <<" ", "b", "b", "b">>),
   Some(Rep("a", QuestionLimit - 2) \o Rep(" ", 5)),
   Some(<<" ">> \o Rep("a", QuestionLimit))}

\* explanations: None, empty, blank, at / over the limit
Explanations ==
  {None, Some(<<>>), Some(<<" ", " ">>), Some(Rep("a", ExplanationLimit)),
   Some(Rep("a", ExplanationLimit + 1))}

\* the two source files
Variants == {"main", "v3"}

\* option texts: None, blank, short, over the limit, the cut form of the
\* one over the limit, blanks over the limit
OptionTexts ==
  {None, Some(<<" ">>), Some(<<"a">>), Some(<<"b">>),
   Some(Rep("a", OptionLimit + 1)),
   Some(Rep("a", OptionLimit - 1) \o Ellipsis),
   Some(Rep(" ", OptionLimit + 1))}

\* n options cycling through m different short texts
Numbered(n, m) == [i \in 1..n |-> Some(Rep("a", ((i - 1) % m) + 1))]

OptionLists ==
  UNION {[1..n -> OptionTexts] : n \in 0..MaxShortList}
    \cup {Numbered(n, m) : n \in 4..MaxListLen, m \in 1..MaxListLen}

\* a returned tuple as the arguments of the next call (send_next_quiz
\* sanitizes the stored row again)
AsArguments(variant, r) ==
  [variant |-> variant, question |-> Some(r.question),
   options |-> [i \in DOMAIN r.options |-> Some(r.options[i])],
   explanation |-> r.explanation]

SanInit ==
  /\ EngineInit
  /\ san_in \in [variant : Variants, question : Questions,
                  options : OptionLists, explanation : Explanations]
  /\ san_out = NoResult
  /\ added = <<>>
  /\ build = "main"
  /\ AuthStart
  /\ poll_text = NoShown

\* the call is made
sanitize_call ==
  /\ san_out.status = "none"
  /\ san_out' = sanitize(san_in.variant, san_in.question, san_in.options,
                         san_in.explanation)
  /\ UNCHANGED <<san_in, added>>
  /\ UNCHANGED engine_vars
  /\ UNCHANGED auth_vars
  /\ UNCHANGED poll_text

\* the returned tuple is stored and later passed to sanitize_for_poll again
sanitize_again ==
  /\ san_out.status = "ok"
  /\ san_in' = AsArguments(san_in.variant, san_out)
  /\ san_out' = NoResult
  /\ UNCHANGED added
  /\ UNCHANGED engine_vars
  /\ UNCHANGED auth_vars
  /\ UNCHANGED poll_text

SanNext == sanitize_call \/ sanitize_again

SanSpec == SanInit /\ [][SanNext]_vars

\* ------------------------------------------- adding quizzes (text_or_poll)
\* rows the admin handlers may insert in one run
MaxAdded == 3
\* longest JSON array imported
MaxImportLen == 2

\* short texts
TextA == <<"a">>
TextB == <<"b">>
TextC == <<"c">>

\* quiz polls an admin can send: 2 or more options, correct_option_id one
\* of their indices; options may be equal
PollOptionLists ==
  {<<TextA, TextB>>, <<TextA, TextA>>, <<TextA, TextB, TextA>>,
   <<TextA, TextB, TextC>>}
Polls ==
  {p \in [options : PollOptionLists, correct_option_id : 0..2] :
     p.correct_option_id < Len(p.options)}

\* objects of an imported JSON array: has_options = FALSE is an object
\* without the key "options"
ImportOptionLists ==
  {<<>>, <<TextA>>, <<TextA, TextB>>, <<TextA, TextA>>, <<TextA, TextB, TextC>>}
ImportObjects ==
  [has_options : {TRUE}, options : ImportOptionLists, correct : {0, 2}]
    \cup [has_options : {FALSE}, options : {<<>>}, correct : {0}]
ImportArrays == UNION {[1..n -> ImportObjects] : n \in 1..MaxImportLen}

\* a row of table quizzes; options is the list json.dumps stores and
\* json.loads returns
QuizRow(question, options, correct, explanation) ==
  [question |-> question, options |-> options, correct |-> correct,
   explanation |-> explanation]

\* the row the ADDING branch inserts for a quiz poll, if any:
\* sanitize_for_poll raising leaves the handler before the INSERT; correct
\* is min(int(poll.correct_option_id), max(0, len(q_opts)-1))
poll_row(p) ==
  LET r == sanitize_for_poll(Some(TextA),
                             [i \in DOMAIN p.options |-> Some(p.options[i])], None)
  IN IF r.status # "ok" THEN <<>>
     ELSE <<QuizRow(r.question, r.options,
                    Min2(p.correct_option_id, Max2(0, Len(r.options) - 1)),
                    r.explanation)>>

\* the rows the IMPORT loop inserts: one per object, as it stands, up to
\* the first object whose it["options"] raises KeyError
RECURSIVE import_rows(_)
import_rows(data) ==
  IF data = <<>> \/ ~Head(data).has_options THEN <<>>
  ELSE <<QuizRow(TextA, Head(data).options, Head(data).correct, None)>>
         \o import_rows(Tail(data))

AddInit ==
  /\ EngineInit
  /\ san_in = NoCall
  /\ san_out = NoResult
  /\ added = <<>>
  /\ build = "main"
  /\ AuthStart
  /\ poll_text = NoShown

\* text_or_poll, mode ADDING: an admin sends a quiz-type poll (other
\* senders and other poll types are turned away before anything is written)
add_quiz_poll(p) ==
  /\ Len(added) < MaxAdded
  /\ added' = added \o poll_row(p)
  /\ UNCHANGED <<san_in, san_out, poll_text>>
  /\ UNCHANGED engine_vars
  /\ UNCHANGED auth_vars
  /\ UNCHANGED poll_text

\* text_or_poll, mode IMPORT: the owner sends a JSON array
import_json(data) ==
  /\ Len(added) + Len(data) <= MaxAdded
  /\ added' = added \o import_rows(data)
  /\ UNCHANGED <<san_in, san_out, poll_text>>
  /\ UNCHANGED engine_vars
  /\ UNCHANGED auth_vars
  /\ UNCHANGED poll_text

AddNext ==
  \/ \E p \in Polls : add_quiz_poll(p)
  \/ \E data \in ImportArrays : import_json(data)

AddSpec == AddInit /\ [][AddNext]_vars

\* ------------------------------------------- who may do what (btn, text)
\* most broadcasts sent in one behaviour
MaxBroadcasts == 1
\* most quiz rows the handlers of this section store
MaxAuthRows == 2

is_owner(uid) == uid = OWNER_ID
\* ADMIN_ID is unset, so the saved list is all there is
admin_ids_from_settings == admin_ids
is_admin(uid) == is_owner(uid) \/ uid \in admin_ids_from_settings
add_admin(uid) == admin_ids_from_settings \cup {uid}
remove_admin(uid) == admin_ids_from_settings \ {uid}
is_user_banned(uid) == uid \in is_banned

\* whether the alert is sent to the owner
notify_owner_unauthorized(offender_id) == ~is_owner(offender_id)

Banned == "You are banned from using this bot."
OwnerOnly == "Owner only."
OnlyAdmin == "Only admin can use this."
AdminsOnly == "Admins only."

\* what a handler did towards its caller: the reply to the actor ("" is
\* none), whether the owner was alerted, whether an exception left the
\* handler, whether an authorization check turned the actor away
Out(actor, entry, reply, alert, raised, denied) ==
  [actor |-> actor, entry |-> entry, reply |-> reply, alert |-> alert,
   raised |-> raised, denied |-> denied]

\* a handler that answers and writes nothing
only_reply(uid, entry, reply) ==
  /\ outcome' = Out(uid, entry, reply, FALSE, FALSE, FALSE)
  /\ UNCHANGED <<admin_ids, is_banned, user_data, broadcasts, admin_log, added>>

\* a failed check: notify_owner_unauthorized, the reply the branch sends
\* (if it sends one), return
refused(uid, entry, reply) ==
  /\ outcome' = Out(uid, entry, reply, notify_owner_unauthorized(uid), FALSE, TRUE)
  /\ UNCHANGED <<admin_ids, is_banned, user_data, broadcasts, admin_log, added>>

\* context.user_data["mode"] = m, answered with reply
set_mode(uid, entry, m, reply) ==
  /\ user_data' = [user_data EXCEPT ![uid].mode = m]
  /\ outcome' = Out(uid, entry, reply, FALSE, FALSE, FALSE)
  /\ UNCHANGED <<admin_ids, is_banned, broadcasts, admin_log, added>>

\* the row the ADDING branch of the second file inserts: the sanitized
\* texts with int(correct) as the poll carries it
poll_row_v3(p) ==
  LET r == sanitize_for_poll_v3(Some(TextA),
                                [i \in DOMAIN p.options |-> Some(p.options[i])], None)
  IN IF r.status # "ok" THEN <<>>
     ELSE <<QuizRow(r.question, r.options, p.correct_option_id, r.explanation)>>

\* /start: the first runner of an empty admin list becomes admin
start(uid) ==
  /\ admin_ids' = IF admin_ids_from_settings = {} THEN add_admin(uid) ELSE admin_ids
  /\ outcome' = Out(uid, "/start", IF is_user_banned(uid) THEN Banned ELSE "welcome",
                FALSE, FALSE, FALSE)
  /\ UNCHANGED <<is_banned, user_data, broadcasts, admin_log, added, build>>
  /\ UNCHANGED <<san_in, san_out, poll_text>>
  /\ UNCHANGED engine_vars

\* the admin-panel buttons the model presses
Acts ==
  {"add_chap", "add_import_here", "import", "broadcast", "bc_confirm",
   "admins:add", "admins:rm", "users:toggle"}
\* the buttons admin_cb keeps for the owner (the first part of the
\* callback data is looked up); the second file tests a:import in btn, to
\* the same effect, and leaves its confirm button to btn
OWNER_ONLY ==
  IF build = "main"
  THEN {"import", "broadcast", "bc_confirm", "admins:add", "admins:rm", "users:toggle"}
  ELSE {"import", "broadcast", "admins:add", "admins:rm", "users:toggle"}

\* the confirm button: the kept text goes to every user
bc_confirm(uid) ==
  IF ~user_data[uid].broadcast_text
  THEN only_reply(uid, "bc_confirm", "No text to broadcast.")
  ELSE /\ broadcasts' = broadcasts + 1
       /\ user_data' = [user_data EXCEPT
                          ![uid] = [mode |-> IF build = "main" THEN "none" ELSE @.mode,
                                    broadcast_text |-> FALSE]]
       /\ outcome' = Out(uid, "bc_confirm", "Broadcast sent", FALSE, FALSE, FALSE)
       /\ UNCHANGED <<admin_ids, is_banned, admin_log, added>>

admin_cb(uid, act, tgt) ==
  IF act \in OWNER_ONLY /\ ~is_owner(uid)
  THEN refused(uid, "admin_cb", OwnerOnly)
  ELSE CASE act = "add_chap" -> set_mode(uid, "admin_cb", "ADDING", "Now send polls")
         [] act = "add_import_here" ->
              IF build = "v3"
              THEN set_mode(uid, "admin_cb", "IMPORT_CHAPTER", "Send a .json file")
              ELSE only_reply(uid, "admin_cb", "")
         [] act = "import" -> set_mode(uid, "admin_cb", "IMPORT", "Send a .json file")
         [] act = "broadcast" -> set_mode(uid, "admin_cb", "BROADCAST_ENTER", "Send the text")
         [] act = "bc_confirm" -> bc_confirm(uid)
         [] act = "admins:add" ->
              set_mode(uid, "admin_cb", "ADMINS_ADD_PROMPT", "Send a user id")
         [] act = "admins:rm" ->
              IF tgt = OWNER_ID
              THEN only_reply(uid, "admin_cb", "Cannot remove owner.")
              ELSE /\ admin_ids' = remove_admin(tgt)
                   /\ outcome' = Out(uid, "admin_cb", "Removed.", FALSE, FALSE, FALSE)
                   /\ UNCHANGED <<is_banned, user_data, broadcasts, admin_log, added>>
         [] act = "users:toggle" ->
              IF tgt = OWNER_ID
              THEN only_reply(uid, "admin_cb", "Cannot ban the owner.")
              ELSE /\ is_banned' = IF tgt \in is_banned THEN is_banned \ {tgt}
                                   ELSE is_banned \cup {tgt}
                   /\ outcome' = Out(uid, "admin_cb", "Users", FALSE, FALSE, FALSE)
                   /\ UNCHANGED <<admin_ids, user_data, broadcasts, admin_log, added>>

\* a press of an admin-panel button (callback data a:...); tgt is the user
\* id inside the data of the remove and toggle buttons
btn(uid, act, tgt) ==
  /\ act = "bc_confirm" /\ user_data[uid].broadcast_text => broadcasts < MaxBroadcasts
  /\ IF build = "v3" /\ act = "bc_confirm"
     THEN IF ~is_admin(uid) THEN refused(uid, "bc_confirm", OnlyAdmin)
          ELSE bc_confirm(uid)
     ELSE IF is_user_banned(uid) THEN only_reply(uid, "btn", Banned)
     ELSE IF ~is_admin(uid) THEN refused(uid, "callback", OnlyAdmin)
     ELSE admin_cb(uid, act, tgt)
  /\ UNCHANGED <<build, san_in, san_out, poll_text>>
  /\ UNCHANGED engine_vars

\* the messages the model sends: a quiz poll, a JSON document, a text that
\* names a user id, and the text "/done" (ref = DoneRef)
DoneRef == -1
NoPoll == [options |-> <<>>, correct_option_id |-> 0]
Msg(kind, poll, data, ref) == [kind |-> kind, poll |-> poll, data |-> data, ref |-> ref]
GoodPoll == [options |-> <<TextA, TextB>>, correct_option_id |-> 1]
RejectedPoll == [options |-> <<TextA, TextA>>, correct_option_id |-> 0]
GoodFile == <<[has_options |-> TRUE, options |-> <<TextA, TextB>>, correct |-> 0]>>
Messages ==
  {Msg("poll", p, <<>>, DoneRef) : p \in {GoodPoll, RejectedPoll}}
    \cup {Msg("document", NoPoll, GoodFile, DoneRef)}
    \cup {Msg("text", NoPoll, <<>>, r) : r \in AuthUsers \cup {DoneRef}}

\* mode ADDING, sender is an admin: the first file lets the sanitizer's
\* ValueError leave the handler, the second catches it and answers
adding(uid, p) ==
  LET r == IF build = "main" THEN poll_row(p) ELSE poll_row_v3(p) IN
  IF r = <<>>
  THEN /\ outcome' = IF build = "main"
                 THEN Out(uid, "ADDING", "", FALSE, TRUE, FALSE)
                 ELSE Out(uid, "ADDING", "Add error", FALSE, FALSE, FALSE)
       /\ UNCHANGED <<admin_ids, is_banned, user_data, broadcasts, admin_log, added>>
  ELSE /\ added' = added \o r
       /\ admin_log' = admin_log + 1
       /\ outcome' = Out(uid, "ADDING", "Saved", FALSE, FALSE, FALSE)
       /\ UNCHANGED <<admin_ids, is_banned, user_data, broadcasts>>

\* modes IMPORT and IMPORT_CHAPTER past their check: the rows go in, the
\* mode is cleared
importing(uid, entry, data) ==
  /\ added' = added \o import_rows(data)
  /\ user_data' = [user_data EXCEPT ![uid].mode = "none"]
  /\ outcome' = Out(uid, entry, "Imported", FALSE, FALSE, FALSE)
  /\ UNCHANGED <<admin_ids, is_banned, broadcasts, admin_log>>

text_or_poll(uid, msg) ==
  LET mode == user_data[uid].mode IN
  /\ mode \in {"ADDING", "IMPORT", "IMPORT_CHAPTER"} /\ msg.kind \in {"poll", "document"}
       => Len(added) < MaxAuthRows
  /\ IF is_user_banned(uid) THEN only_reply(uid, "text_or_poll", Banned)
     ELSE IF mode = "ADDING" /\ msg.kind = "poll" THEN
       IF ~is_admin(uid) THEN refused(uid, "ADDING", "")
       ELSE adding(uid, msg.poll)
     ELSE IF mode = "IMPORT" /\ msg.kind = "document" THEN
       IF ~is_owner(uid) THEN refused(uid, "IMPORT", OwnerOnly)
       ELSE importing(uid, "IMPORT", msg.data)
     ELSE IF mode = "IMPORT_CHAPTER" /\ msg.kind = "document" THEN
       IF ~is_admin(uid) THEN refused(uid, "IMPORT_CHAPTER", AdminsOnly)
       ELSE importing(uid, "IMPORT_CHAPTER", msg.data)
     ELSE IF mode = "BROADCAST_ENTER" /\ msg.kind = "text" THEN
       IF ~is_owner(uid)
       THEN /\ outcome' = Out(uid, "BROADCAST_ENTER", "", notify_owner_unauthorized(uid),
                          FALSE, TRUE)
            /\ user_data' = IF build = "main" THEN user_data
                            ELSE [user_data EXCEPT ![uid].mode = "none"]
            /\ UNCHANGED <<admin_ids, is_banned, broadcasts, admin_log, added>>
       ELSE /\ user_data' = [user_data EXCEPT
                               ![uid] = [mode |-> IF build = "main"
                                                  THEN "BROADCAST_CONFIRM" ELSE "none",
                                         broadcast_text |-> TRUE]]
            /\ outcome' = Out(uid, "BROADCAST_ENTER", "Preview", FALSE, FALSE, FALSE)
            /\ UNCHANGED <<admin_ids, is_banned, broadcasts, admin_log, added>>
     ELSE IF mode = "ADMINS_ADD_PROMPT" /\ msg.kind = "text" THEN
       IF ~is_owner(uid) THEN refused(uid, "ADMINS_ADD_PROMPT", "")
       ELSE /\ admin_ids' = IF msg.ref \in AuthUsers THEN add_admin(msg.ref) ELSE admin_ids
            /\ user_data' = [user_data EXCEPT ![uid].mode = "none"]
            /\ outcome' = Out(uid, "ADMINS_ADD_PROMPT",
                          IF msg.ref \in AuthUsers THEN "Added admin"
                          ELSE "Please send a numeric user id or @username.",
                          FALSE, FALSE, FALSE)
            /\ UNCHANGED <<is_banned, broadcasts, admin_log, added>>
     ELSE IF msg.kind = "text" /\ msg.ref = DoneRef
       THEN set_mode(uid, "text_or_poll", "none", "Finished.")
     ELSE only_reply(uid, "text_or_poll", "")
  /\ UNCHANGED <<build, san_in, san_out, poll_text>>
  /\ UNCHANGED engine_vars

\* /editsub without arguments: the first file alerts the owner and says
\* nothing to the sender, the second says "Owner only." and alerts nobody
editsub_cmd(uid) ==
  /\ IF ~is_owner(uid)
     THEN IF build = "main" THEN refused(uid, "/editsub", "")
          ELSE /\ outcome' = Out(uid, "/editsub", OwnerOnly, FALSE, FALSE, TRUE)
               /\ UNCHANGED <<admin_ids, is_banned, user_data, broadcasts,
                              admin_log, added>>
     ELSE only_reply(uid, "/editsub", "Usage: /editsub <old subject>")
  /\ UNCHANGED <<build, san_in, san_out, poll_text>>
  /\ UNCHANGED engine_vars

AuthSpecInit ==
  /\ EngineInit
  /\ san_in = NoCall
  /\ san_out = NoResult
  /\ added = <<>>
  /\ build \in Variants
  /\ AuthStart
  /\ poll_text = NoShown

AuthNext ==
  \/ \E uid \in AuthUsers : start(uid)
  \/ \E uid \in AuthUsers, act \in Acts, tgt \in AuthUsers : btn(uid, act, tgt)
  \/ \E uid \in AuthUsers, msg \in Messages : text_or_poll(uid, msg)
  \/ \E uid \in AuthUsers : editsub_cmd(uid)

AuthSpec == AuthSpecInit /\ [][AuthNext]_vars

\* ------------------------------- timed sessions under fair scheduling
\* number of polls the sessions created so far can ask for
RECURSIVE PollsPlanned(_)
PollsPlanned(I) == IF I = <<>> THEN 0 ELSE Len(Head(I)) + PollsPlanned(Tail(I))

\* every quiz row of the subject yields a poll Telegram accepts
Deliverable(Q, subj) == \A q \in pool(Q, subj) : transport_accepts(poll_payload(q))

\* the environment of a session whose sends succeed: send_poll and the
\* summary send_message return, no quiz row is deleted, the subjects
\* offered hold deliverable rows only; the edit of the menu message in
\* begin_quiz_session may still raise
LiveNext ==
  \/ \E uid \in Users, subj \in Subjects, op \in OpenPeriods :
       \E ids \in Orderings(pool(quizzes, subj)) :
         /\ Deliverable(quizzes, subj)
         /\ PollsPlanned(session_items) + Len(ids) <= MaxPolls
         /\ begin_quiz_session(uid, subj, op, ids)
         /\ UNCHANGED admin_vars
  \/ \E f \in frames, ok \in BOOLEAN : begin_started(f, ok) /\ UNCHANGED admin_vars
  \/ \E f \in frames : summary_return(f, TRUE) /\ UNCHANGED admin_vars
  \/ \E f \in frames : poll_return(f, TRUE) /\ UNCHANGED admin_vars
  \/ \E f \in frames : controls_return(f) /\ UNCHANGED admin_vars
  \/ \E f \in frames : timeout_fallback(f) /\ UNCHANGED admin_vars
  \/ \E uid \in Users, pid \in 1..next_poll_id, chosen \in AnswerChoices :
       poll_answer(uid, pid, chosen) /\ UNCHANGED admin_vars
  \/ \E uid \in Users : stop_cmd(uid) /\ UNCHANGED admin_vars

\* the event loop resumes every coroutine whose await has completed and
\* runs every timeout task whose sleep is over; what users do is not forced
LiveFairness ==
  /\ WF_vars(\E f \in frames, ok \in BOOLEAN : begin_started(f, ok) /\ UNCHANGED admin_vars)
  /\ WF_vars(\E f \in frames : summary_return(f, TRUE) /\ UNCHANGED admin_vars)
  /\ WF_vars(\E f \in frames : poll_return(f, TRUE) /\ UNCHANGED admin_vars)
  /\ WF_vars(\E f \in frames : controls_return(f) /\ UNCHANGED admin_vars)
  /\ WF_vars(\E f \in frames : timeout_fallback(f) /\ UNCHANGED admin_vars)

LiveSpec == Init /\ [][LiveNext]_vars /\ LiveFairness

\* ------------------------------------------- the question text of a poll
\* largest session size looked at
MaxTotal == 100
\* session sizes and places where the counter changes its width
Totals == {1, 9, 10, MaxTotal - 1, MaxTotal}
Places(total) == {1, 9, 10, total} \cap 1..total

\* str(n) for n >= 0: the decimal digits
DigitChars == <<"0", "1", "2", "3", "4", "5", "6", "7", "8", "9">>
RECURSIVE str_int(_)
str_int(n) ==
  IF n < 10 THEN <<DigitChars[n + 1]>>
  ELSE str_int(n \div 10) \o <<DigitChars[(n % 10) + 1]>>

\* f"[{show_idx}/{total}] {q_text}"
display_q(show_idx, total, q_text) ==
  <<"[">> \o str_int(show_idx) \o <<"/">> \o str_int(total) \o <<"]", " ">> \o q_text

\* stored questions: short, at the limit, over it by one and by eight
ShowQuestions ==
  {<<"a">>, Rep("a", QuestionLimit), Rep("a", QuestionLimit + 1),
   Rep("a", QuestionLimit + 8)}

\* a stored question at a place of a session
ShowInit ==
  /\ EngineInit
  /\ san_in = NoCall
  /\ san_out = NoResult
  /\ added = <<>>
  /\ build = "main"
  /\ AuthStart
  /\ \E v \in Variants, total \in Totals, q \in ShowQuestions :
       \E show_idx \in Places(total) :
         poll_text = [variant |-> v, show_idx |-> show_idx, total |-> total,
                  question |-> q, display_q |-> <<>>]

\* send_next_quiz builds the question of the poll: the stored question is
\* sanitized and the counter is put in front
show_question ==
  /\ poll_text.display_q = <<>>
  /\ LET r == sanitize(poll_text.variant, Some(poll_text.question),
                       <<Some(TextA), Some(TextB)>>, None)
     IN poll_text' = [poll_text EXCEPT
                    !.display_q = display_q(poll_text.show_idx, poll_text.total, r.question)]
  /\ UNCHANGED <<san_in, san_out, added>>
  /\ UNCHANGED auth_vars
  /\ UNCHANGED engine_vars

ShowNext == show_question

ShowSpec == ShowInit /\ [][ShowNext]_vars

\* ----------------------------------------------------------------- claims
Timed(s) == sessions[s].open_period > 0
ItemIdxs(s) == DOMAIN session_items[s]
ClosedCount(s) == Cardinality({i \in ItemIdxs(s) : session_items[s][i].closed})
RowsOf(AP, s) == {r \in AP : r.session_id = s}

\* C1: in every reachable state each session's current_index lies between
\* 0 and its total, and total is the number of its session items.
C1_IndexWithinTotal ==
  \A s \in SessionIds :
    /\ sessions[s].total = Len(session_items[s])
    /\ 0 <= sessions[s].current_index
    /\ sessions[s].current_index <= sessions[s].total

\* a two-question session whose cursor has reached its total
C1_Witness ==
  \E s \in SessionIds :
    sessions[s].total = 2 /\ sessions[s].current_index = sessions[s].total

\* C2: for one delivered question of a timed session only one of answer and
\* timeout takes effect: an item once closed keeps its chosen / is_correct
\* for ever, a closed item's poll has no active-poll row left (so the later
\* event finds nothing and returns), and the cursor counts each closed item
\* exactly once.
C2_FirstWriterWins ==
  /\ [](\A s \in SessionIds :
          /\ Timed(s) => sessions[s].current_index = ClosedCount(s)
          /\ \A i \in ItemIdxs(s) :
               session_items[s][i].closed =>
                 active_row(active_polls, session_items[s][i].poll_id) = {})
  /\ [][\A s \in SessionIds : \A i \in ItemIdxs(s) :
          session_items[s][i].closed =>
            /\ session_items'[s][i].closed
            /\ session_items'[s][i].chosen = session_items[s][i].chosen
            /\ session_items'[s][i].is_correct = session_items[s][i].is_correct]_vars

\* a timed question closed by a user answer whose timeout task has since run
\* to completion (no coroutine holds its poll id any more)
C2_Witness ==
  \E s \in SessionIds : \E i \in ItemIdxs(s) :
    /\ Timed(s)
    /\ session_items[s][i].closed
    /\ session_items[s][i].chosen = 1
    /\ \A f \in frames : f.pid # session_items[s][i].poll_id

\* C3: the summary is sent at most once per session; a session becomes
\* finished only with current_index = total and with that one summary, and
\* stays finished; send_next_quiz on a finished session suspends nowhere,
\* so it sends nothing and changes nothing.
C3_FinalizeOnce ==
  /\ [](\A s \in SessionIds :
          /\ summary_sent[s] <= 1
          /\ sessions[s].state = "finished" =>
               /\ sessions[s].current_index = sessions[s].total
               /\ summary_sent[s] = 1
               /\ send_next_quiz(0, s, sessions, session_items, quizzes) = {})
  /\ [][\A s \in SessionIds :
          /\ sessions[s].state = "finished" => sessions'[s].state = "finished"
          /\ (sessions[s].state # "finished" /\ sessions'[s].state = "finished") =>
               /\ sessions[s].current_index = sessions[s].total
               /\ summary_sent[s] = 0 /\ summary_sent'[s] = 1]_vars

\* a finished two-question session with its summary sent
C3_Witness ==
  \E s \in SessionIds :
    /\ sessions[s].state = "finished"
    /\ sessions[s].total = 2
    /\ summary_sent[s] = 1

\* C4: in every step current_index of a session does not decrease and grows
\* by exactly the number of the session's active-poll rows the step removes.
C4_AdvancePerResolvedItem ==
  [][\A s \in SessionIds :
       /\ sessions'[s].current_index >= sessions[s].current_index
       /\ sessions'[s].current_index - sessions[s].current_index =
            Cardinality(RowsOf(active_polls, s) \ active_polls')]_vars

\* C5: a poll answer for a poll whose active-poll row exists records the
\* chosen option, deletes the row and advances the cursor by one, whatever
\* the session's timer and the payload.
C5_AnswerAdvances ==
  [][\A pid \in 1..next_poll_id : \A chosen \in AnswerChoices :
       (active_row(active_polls, pid) # {}
          /\ \E uid \in Users : poll_answer(uid, pid, chosen)) =>
         \A r \in active_row(active_polls, pid) :
           /\ active_row(active_polls', pid) = {}
           /\ \A i \in item_of(session_items, r.session_id, pid) :
                /\ session_items'[r.session_id][i].closed
                /\ session_items'[r.session_id][i].chosen = chosen
           /\ sessions'[r.session_id].current_index =
                sessions[r.session_id].current_index + 1]_vars

\* C6: a timeout that fires while the active-poll row exists writes
\* chosen = -1, is_correct = 0, deletes the row and advances the cursor by
\* one; an untimed session has no timeout task and no item with chosen = -1.
C6_TimeoutSentinel ==
  /\ [](\A s \in SessionIds :
          ~Timed(s) =>
            /\ \A f \in frames : f.sid = s => f.pc # "sleep"
            /\ \A i \in ItemIdxs(s) : session_items[s][i].chosen # TIMEOUT_CHOSEN)
  /\ [][\A f \in frames :
          (f.pc = "sleep" /\ active_row(active_polls, f.pid) # {}
             /\ timeout_fallback(f)) =>
            /\ Timed(f.sid)
            /\ active_row(active_polls', f.pid) = {}
            /\ sessions'[f.sid].current_index = sessions[f.sid].current_index + 1
            /\ \A i \in item_of(session_items, f.sid, f.pid) :
                 /\ session_items'[f.sid][i].chosen = TIMEOUT_CHOSEN
                 /\ session_items'[f.sid][i].is_correct = 0]_vars

\* a timed question resolved by its timeout, next to an untimed session
\* that has had a question delivered
C6_Witness ==
  /\ \E s \in SessionIds : \E i \in ItemIdxs(s) :
       Timed(s) /\ session_items[s][i].chosen = TIMEOUT_CHOSEN
                /\ session_items[s][i].is_correct = 0
  /\ \E s \in SessionIds : ~Timed(s) /\ Len(delivered[s]) > 0

\* C7: the polls sent for a session are idx 0, 1, 2, ... in this order, each
\* once; every question before the last delivered one is closed; a session
\* has at most one active-poll row.
C7_DeliveryInOrder ==
  \A s \in SessionIds :
    /\ Len(delivered[s]) <= sessions[s].total
    /\ \A k \in DOMAIN delivered[s] : delivered[s][k] = k - 1
    /\ \A k \in DOMAIN delivered[s] :
         k < Len(delivered[s]) => session_items[s][k].closed
    /\ Cardinality(RowsOf(active_polls, s)) <= 1

\* both questions of a two-question session have been delivered
C7_Witness ==
  \E s \in SessionIds : delivered[s] = <<0, 1>>

\* C8: a session that is stopped or finished keeps its state in every step.
C8_TerminalStatesStay ==
  [][\A s \in SessionIds :
       sessions[s].state \in {"stopped", "finished"} =>
         sessions'[s].state = sessions[s].state]_vars

\* C9: a timeout task that fires for a stopped session changes no session,
\* session-item or active-poll state and delivers nothing.
C9_TimeoutAfterStopNoop ==
  [][\A f \in frames :
       (f.pc = "sleep" /\ sessions[f.sid].state = "stopped"
          /\ timeout_fallback(f)) =>
         UNCHANGED <<sessions, session_items, active_polls, delivered>>]_vars

\* C10: each user has at most one running session, and a step that creates
\* a session leaves no older session of that user running.
C10_OneRunningPerUser ==
  /\ [](\A u \in Users :
          Cardinality({s \in SessionIds :
                         sessions[s].user_id = u /\ sessions[s].state = "running"}) <= 1)
  /\ [][Len(sessions') > Len(sessions) =>
          \A s \in SessionIds :
            sessions[s].user_id = sessions'[Len(sessions')].user_id =>
              sessions'[s].state # "running"]_vars

\* a user whose earlier session was stopped by starting the running one
C10_Witness ==
  \E s, t \in SessionIds :
    /\ s < t
    /\ sessions[s].user_id = sessions[t].user_id
    /\ sessions[s].state = "stopped"
    /\ sessions[t].state = "running"
    /\ sessions[s].current_index < sessions[s].total

\* C11: every session has as many session_items rows as its total, their
\* idx values are exactly 0..total-1, each once, no quiz id occurs twice, and
\* at the step that creates the session the quiz ids of its rows are exactly
\* the pool selected for the chosen subject.
C11_ItemsArePoolPermutation ==
  /\ [](\A s \in SessionIds :
          /\ Len(session_items[s]) = sessions[s].total
          /\ {session_items[s][i].idx : i \in ItemIdxs(s)} = 0..(sessions[s].total - 1)
          /\ \A i, j \in ItemIdxs(s) :
               (session_items[s][i].idx = session_items[s][j].idx
                  \/ session_items[s][i].quiz_id = session_items[s][j].quiz_id)
               => i = j)
  /\ [][\A uid \in Users, subj \in Subjects, op \in OpenPeriods :
          \A ids \in Orderings(pool(quizzes, subj)) :
            (begin_quiz_session(uid, subj, op, ids) /\ Len(sessions') > Len(sessions)) =>
              {session_items'[Len(sessions')][i].quiz_id :
                 i \in DOMAIN session_items'[Len(sessions')]} = pool(quizzes, subj)]_vars

\* a session created over the two-quiz pool with the second quiz first
C11_Witness ==
  \E s \in SessionIds :
    /\ sessions[s].total = 2
    /\ session_items[s][1].quiz_id = 2 /\ session_items[s][1].idx = 0
    /\ session_items[s][2].quiz_id = 1 /\ session_items[s][2].idx = 1

\* C12: the counts of every summary, built or sent, are: correct = items
\* with is_correct = 1; with answered = items with chosen >= 0, wrong =
\* answered - correct and missed = total - answered; the three are
\* non-negative and add up to total; a session with every item correct
\* reports correct = total, wrong = 0, missed = 0.
C12_SummaryCounts ==
  \A s \in SessionIds :
    LET items == session_items[s]
        answered == Cardinality({i \in ItemIdxs(s) : items[i].chosen >= 0})
        right == Cardinality({i \in ItemIdxs(s) : items[i].is_correct = 1})
        shown == {f.counts : f \in {g \in frames : g.pc = "summary" /\ g.sid = s}}
                   \cup (IF summary_sent[s] > 0 THEN {summary_msg[s]} ELSE {})
    IN \A c \in shown :
         /\ c.correct = right
         /\ c.wrong = answered - right
         /\ c.missed = sessions[s].total - answered
         /\ c.correct >= 0 /\ c.wrong >= 0 /\ c.missed >= 0
         /\ c.correct + c.wrong + c.missed = sessions[s].total
         /\ (\A i \in ItemIdxs(s) : items[i].is_correct = 1) =>
              c = [correct |-> sessions[s].total, wrong |-> 0, missed |-> 0]

\* a summary sent for a two-question session: one question answered right,
\* the other one timed out or answered wrong
C12_Witness ==
  \E s \in SessionIds :
    /\ summary_sent[s] = 1
    /\ sessions[s].total = 2
    /\ summary_msg[s].correct = 1

\* C13: begin_quiz_session for a selection whose pool is empty puts the
\* empty-selection text into the menu message and writes nothing: no
\* sessions or session_items row is added and no session of the user, a
\* running one included, changes.
C13_EmptySelectionWritesNothing ==
  /\ [](\A uid \in Users, subj \in Subjects, op \in OpenPeriods :
          pool(quizzes, subj) = {} =>
            LET w == begin_writes(sessions, session_items, quizzes, uid, subj, op, <<>>)
            IN ~w.created /\ w.sessions = sessions /\ w.session_items = session_items)
  /\ [][\A uid \in Users, subj \in Subjects, op \in OpenPeriods :
          (pool(quizzes, subj) = {} /\ begin_quiz_session(uid, subj, op, <<>>)) =>
            /\ menu_text' = EmptySelection
            /\ UNCHANGED <<sessions, session_items, active_polls, delivered,
                           summary_sent, quizzes>>]_vars

\* the empty-selection text is on the screen while a user has a running
\* session with a question delivered
C13_Witness ==
  /\ menu_text = EmptySelection
  /\ \E s \in SessionIds :
       sessions[s].state = "running" /\ Len(delivered[s]) > 0

\* the handlers a user can trigger: a poll answer, /stop or the stop button,
\* starting a quiz
ActionBy(u) ==
  \/ \E pid \in 1..next_poll_id, chosen \in AnswerChoices : poll_answer(u, pid, chosen)
  \/ stop_cmd(u)
  \/ \E subj \in Subjects, op \in OpenPeriods :
       \E ids \in Orderings(pool(quizzes, subj)) : begin_quiz_session(u, subj, op, ids)

\* C14: no handler triggered by a user changes the row, the items or the
\* active-poll rows of a session owned by another user.
C14_UsersIndependent ==
  [][\A u \in Users : \A s \in SessionIds :
       (sessions[s].user_id # u /\ ActionBy(u)) =>
         /\ sessions'[s] = sessions[s]
         /\ session_items'[s] = session_items[s]
         /\ RowsOf(active_polls', s) = RowsOf(active_polls, s)]_vars

\* C15: in both files, when sanitize_for_poll returns a tuple, the call on
\* that tuple returns the same tuple.
C15_SanitizeIdempotent ==
  san_out.status = "ok" =>
    LET a == AsArguments(san_in.variant, san_out)
    IN sanitize(a.variant, a.question, a.options, a.explanation) = san_out

\* the text an input option has after the file's per-option conversion
OptionText(variant, o) ==
  IF variant = "main" THEN truncate(OrEmpty(o), OptionLimit)
  ELSE trunc(o, OptionLimit)

\* the converted input options, by input position
Converted == [i \in DOMAIN san_in.options |->
                OptionText(san_in.variant, san_in.options[i])]

\* the different non-blank converted input options
Remaining == {t \in {Converted[i] : i \in DOMAIN Converted} : strip(t) # <<>>}

\* input position at which a converted option occurs first
FirstAt(t) ==
  CHOOSE i \in DOMAIN Converted :
    Converted[i] = t /\ \A j \in DOMAIN Converted : Converted[j] = t => i <= j

\* C16: a call of sanitize_for_poll either raises the not-enough-options
\* error or returns between 2 and 10 options, and it raises exactly when
\* fewer than 2 different non-blank options remain.
C16_OptionCount ==
  san_out.status # "none" =>
    /\ san_out.status \in {"ok", "ValueError"}
    /\ san_out.status = "ok" =>
         (2 <= Len(san_out.options) /\ Len(san_out.options) <= MaxOptions)
    /\ san_out.status = "ValueError" <=> Cardinality(Remaining) < 2

\* more than ten different options went in and ten came out
C16_Witness ==
  /\ san_out.status = "ok"
  /\ Cardinality(Remaining) > MaxOptions
  /\ Len(san_out.options) = MaxOptions

\* C17: the returned options are not blank and pairwise different, each is
\* a converted input option, they stand in the order of their first
\* occurrence in the input, and none that occurs earlier than a returned
\* one is left out.
C17_OptionsCleanOrdered ==
  san_out.status = "ok" =>
    LET out == san_out.options IN
    /\ \A k \in DOMAIN out : strip(out[k]) # <<>> /\ out[k] \in Remaining
    /\ \A k, l \in DOMAIN out : k < l =>
         (out[k] # out[l] /\ FirstAt(out[k]) < FirstAt(out[l]))
    /\ \A t \in Remaining :
         (\E k \in DOMAIN out : out[k] = t)
           \/ (Len(out) = MaxOptions
                 /\ \A k \in DOMAIN out : FirstAt(out[k]) < FirstAt(t))

\* two different input options that are equal once cut, one of them
\* returned once, and a blank option dropped
C17_Witness ==
  /\ san_out.status = "ok"
  /\ \E i, j \in DOMAIN Converted :
       i < j /\ san_in.options[i] # san_in.options[j]
             /\ Converted[i] = Converted[j] /\ Converted[i] \in Remaining
  /\ Len(san_out.options) < Len(san_in.options)

\* C18: a returned question has at most 292 characters, a returned option
\* at most 100, a returned explanation at most 200; a question or
\* explanation longer than its limit comes back cut to exactly the limit,
\* its last character being the marker, and one within its limit comes
\* back as it went in.
C18_LengthCaps ==
  san_out.status = "ok" =>
    LET q == OrEmpty(san_in.question)
        e == OrEmpty(san_in.explanation)
        Cut(in, out, n) ==
          IF Len(in) > n
          THEN Len(out) = n /\ SubSeq(out, 1, n - 1) = SubSeq(in, 1, n - 1)
          ELSE out = in
    IN /\ Len(san_out.question) <= QuestionLimit
       /\ \A k \in DOMAIN san_out.options : Len(san_out.options[k]) <= OptionLimit
       /\ Len(OrEmpty(san_out.explanation)) <= ExplanationLimit
       /\ Cut(q, san_out.question, QuestionLimit)
       /\ Cut(e, OrEmpty(san_out.explanation), ExplanationLimit)

\* an option list sanitize_for_poll accepts
Usable(options) ==
  sanitize_for_poll(Some(TextA), [i \in DOMAIN options |-> Some(options[i])],
                    None).status = "ok"

\* the objects of an array that have at least 2 usable options
RECURSIVE ValidObjects(_)
ValidObjects(data) ==
  IF data = <<>> THEN <<>>
  ELSE (IF Head(data).has_options /\ Usable(Head(data).options)
        THEN <<Head(data)>> ELSE <<>>) \o ValidObjects(Tail(data))

\* C19: an import stores one row for every object of the array that has at
\* least 2 usable options, and none for the other objects.
C19_ImportRejectsBadEntry ==
  [][\A data \in ImportArrays :
       import_json(data) =>
         LET valid == ValidObjects(data) IN
         /\ Len(added') = Len(added) + Len(valid)
         /\ \A k \in DOMAIN valid :
              added'[Len(added) + k].options = valid[k].options]_vars

\* C20: every row the admin handlers have stored has between 2 and 10
\* options, pairwise different and each within the option limit, and a
\* correct index that is an index of its option list.
C20_StoredQuizzesWellFormed ==
  \A r \in DOMAIN added :
    LET row == added[r] IN
    /\ 2 <= Len(row.options) /\ Len(row.options) <= MaxOptions
    /\ \A k, l \in DOMAIN row.options :
         row.options[k] = row.options[l] => k = l
    /\ \A k \in DOMAIN row.options : Len(row.options[k]) <= OptionLimit
    /\ 0 <= row.correct /\ row.correct < Len(row.options)

C22_OwnerOnlyPowers ==
  [][outcome'.actor # OWNER_ID =>
       /\ admin_ids' = admin_ids
       /\ is_banned' = is_banned
       /\ broadcasts' = broadcasts
       /\ (outcome'.entry \in {"IMPORT", "IMPORT_CHAPTER"} => added' = added)]_vars

\* C23: whenever an authorization check turns an actor away, at whichever
\* privileged entry point, no stored data changes, the actor is sent a
\* refusal message and the owner is sent an alert.
C23_RefusalComplete ==
  [][outcome'.denied =>
       /\ UNCHANGED <<admin_ids, is_banned, broadcasts, admin_log, added>>
       /\ outcome'.reply # ""
       /\ outcome'.alert]_vars

\* C24: when an admin in mode ADDING sends a quiz poll that the sanitizer
\* rejects, the handler stores no quiz row and no admin_log row, answers
\* the admin with an error message and lets no exception leave it.
C24_RejectionCaught ==
  [][\A uid \in AuthUsers, p \in {GoodPoll, RejectedPoll} :
       (/\ user_data[uid].mode = "ADDING"
        /\ is_admin(uid)
        /\ ~is_user_banned(uid)
        /\ sanitize(build, Some(TextA),
                    [i \in DOMAIN p.options |-> Some(p.options[i])], None).status # "ok"
        /\ text_or_poll(uid, Msg("poll", p, <<>>, DoneRef)))
       => /\ added' = added
          /\ admin_log' = admin_log
          /\ outcome'.reply # ""
          /\ ~outcome'.raised]_vars

C26_ActiveRowIsCurrentItem ==
  \A r \in active_polls :
    LET its == item_of(session_items, r.session_id, r.poll_id) IN
    /\ r.session_id \in SessionIds
    /\ Cardinality(its) = 1
    /\ \A i \in its :
         /\ session_items[r.session_id][i].chosen = NULL
         /\ session_items[r.session_id][i].idx = sessions[r.session_id].current_index
\* a stopped session still holds the row of its second question
C26_Witness ==
  \E r \in active_polls :
    /\ sessions[r.session_id].state = "stopped"
    /\ sessions[r.session_id].current_index = 1
    /\ item_of(session_items, r.session_id, r.poll_id) = {2}

\* C27: under fair scheduling, with every poll delivery and summary send
\* succeeding and the quiz rows in place, every timed session sooner or
\* later leaves state running (finished or stopped), answered or not.
C27_TimedSessionEnds ==
  \A s \in 1..MaxSessions :
    (s \in SessionIds /\ Timed(s))
      ~> (s \in SessionIds /\ sessions[s].state \in {"finished", "stopped"})

\* C28: an item the user answered has is_correct = 1 exactly when the
\* option chosen is the correct_option_id its poll was delivered with.
C28_CorrectAsDelivered ==
  \A s \in SessionIds : \A i \in ItemIdxs(s) :
    LET it == session_items[s][i] IN
    (it.chosen >= 0 /\ it.poll_id \in DOMAIN poll_sent) =>
      (it.is_correct = 1 <=> it.chosen = poll_sent[it.poll_id].correct_option_id)

\* C29: the question string of a poll, the "[i/total] " counter followed by
\* the sanitized question, is at most 300 characters long, whatever the
\* size of the session and the place of the item.
C29_DisplayQuestionFits == Len(poll_text.display_q) <= 300

\* C30: a stop by a user turns the state of that user's running sessions
\* to stopped and changes nothing else: every other field of every session,
\* all session items, all active-poll rows and the sessions of other users
\* stay as they are; without a running session nothing changes at all.
C30_StopOnlyChangesState ==
  [][\A uid \in Users :
       stop_cmd(uid) =>
         /\ DOMAIN sessions' = DOMAIN sessions
         /\ \A s \in SessionIds :
              sessions'[s] =
                IF sessions[s].user_id = uid /\ sessions[s].state = "running"
                THEN [sessions[s] EXCEPT !.state = "stopped"]
                ELSE sessions[s]
         /\ session_items' = session_items
         /\ active_polls' = active_polls
         /\ frames' = frames]_vars
\* a user's only session is stopped with its first poll still active while
\* another user's session is running
C30_Witness ==
  \E s, t \in SessionIds :
    /\ sessions[s].user_id # sessions[t].user_id
    /\ sessions[s].state = "stopped"
    /\ sessions[s].current_index = 0
    /\ RowsOf(active_polls, s) # {}
    /\ sessions[t].state = "running"
====
